---- MODULE Spec2Model ----
(***************************************************************************)
(* A model of src/app.py: the fundamental analysis dashboard.              *)
(*                                                                         *)
(* Numbers.  Every ratio the program reads as a float is held here as an   *)
(* integer count of hundredths (20.0 is 2000, 0.05 is 5, 1.5 is 150), and   *)
(* the comparisons of the code are made exactly, by cross-multiplication   *)
(* (pe < benchmark_pe * 0.8 is pe * 10 < benchmark_pe * 8).                *)
(*                                                                         *)
(* Values.  A Python value that may be None is held as a tuple: None is    *)
(* <<>> and a value v is <<v>>.  A dict is a function whose DOMAIN is the  *)
(* set of keys present, so a missing key and a key mapped to None are two  *)
(* different things, as they are for dict.get(key, default).               *)
(***************************************************************************)
EXTENDS Integers, Sequences, FiniteSets, TLC

VARIABLES
    pc,             \* position of the script run inside main()
    analyze_button, \* st.button("Run Analysis") of the current script run
    ticker_input,   \* st.text_input(...) of the current script run
    analyst,        \* the FundamentalAnalyst most recently constructed
    auditor,        \* the DataAuditor most recently constructed
    score,          \* main's local `score`
    rating,         \* main's local `rating`
    audit_results,  \* main's local `audit_results`
    shown,          \* what the run has put on the page, in order
    fetched,        \* provider endpoints requested during the run
    err,            \* the exception the top-level handler reported in the run
    alive,          \* FALSE once an exception has left main()
    last_outcome,   \* how the previous script run ended
    results,        \* scores returned by successive calculate_score calls;
                    \* under SpecVerdict, the previous <<score, rating>>;
                    \* under SpecAudit, the total_checks reported by
                    \* successive verify_all calls
    returns,        \* portfolio engine: per-period returns
    capital,        \* portfolio engine: initial capital
    values,         \* portfolio engine: the portfolio value series
    drawdown        \* portfolio engine: the result of max_drawdown

vars == <<pc, analyze_button, ticker_input, analyst, auditor, score, rating,
          audit_results, shown, fetched, err, alive, last_outcome, results,
          returns, capital, values, drawdown>>

main_vars == <<pc, analyze_button, ticker_input, auditor, score, rating,
               audit_results, shown, fetched, err, alive, last_outcome>>

portfolio_vars == <<returns, capital, values, drawdown>>

----------------------------------------------------------------------------
(* Python values *)

None == <<>>

Some(v) == <<v>>

EmptyDict == [k \in {} |-> None]

\* dict.get(key): the value, or None when the key is missing
dict_get(d, key) == IF key \in DOMAIN d THEN d[key] ELSE None

\* dict.get(key, default)
dict_get_default(d, key, default) == IF key \in DOMAIN d THEN d[key] ELSE default

\* the truth value of a numeric Python value: None and 0 are false
truthy(val) == val # None /\ val[1] # 0

\* `x or default` for a numeric x
or_default(val, default) == IF truthy(val) THEN val[1] ELSE default

Max(a, b) == IF a >= b THEN a ELSE b

Min(a, b) == IF a <= b THEN a ELSE b

----------------------------------------------------------------------------
(* FundamentalAnalyst *)

\* FundamentalAnalyst.get(key, default=0.0)
get_default(self, key, default) ==
    LET val == dict_get(self.info, key)
    IN  IF val # None THEN val[1] ELSE default

get(self, key) == get_default(self, key, 0)

max_score == 100

\* de_ratio that reads every debtToEquity as a percentage
de_ratio_percent(self) == <<get(self, "debtToEquity"), 100>>

\* de_ratio of calculate_score (and of main), as the fraction <<n, d>>:
\* debtToEquity / 100.0 if debtToEquity > 10 else debtToEquity
de_ratio(self) ==
    IF get(self, "debtToEquity") > 1000
    THEN <<get(self, "debtToEquity"), 100>>
    ELSE <<get(self, "debtToEquity"), 1>>

\* fraction <<n, d>> < c, with d > 0
frac_lt(f, c) == f[1] < c * f[2]

\* fraction <<n, d>> > c, with d > 0
frac_gt(f, c) == f[1] > c * f[2]

\* valuation_points with the second test an `if`, not an `elif`
valuation_points_both(self) ==
    LET pe == get(self, "trailingPE")
    IN  IF pe > 0 /\ self.benchmark["pe"] > 0
        THEN (IF pe * 10 < self.benchmark["pe"] * 8 THEN 20 ELSE 0)
             + (IF pe * 10 < self.benchmark["pe"] * 12 THEN 10 ELSE 0)
        ELSE 0

\* the valuation block of calculate_score
valuation_points(self) ==
    LET pe == get(self, "trailingPE")
    IN  IF pe > 0 /\ self.benchmark["pe"] > 0
        THEN IF pe * 10 < self.benchmark["pe"] * 8 THEN 20
             ELSE IF pe * 10 < self.benchmark["pe"] * 12 THEN 10
             ELSE 0
        ELSE 0

\* score_flags with `>= 0` for `> 0`
score_flags_ge(self) ==
    LET g1 == IF get(self, "trailingEps") >= 0 THEN 1 ELSE 0
        g2 == IF get(self, "freeCashflow") >= 0 THEN 1 ELSE 0
    IN  <<g1 + g2, (1 - g1) + (1 - g2)>>

\* green_flags and red_flags of calculate_score, as <<green, red>>
score_flags(self) ==
    LET g1 == IF get(self, "trailingEps") > 0 THEN 1 ELSE 0
        g2 == IF get(self, "freeCashflow") > 0 THEN 1 ELSE 0
    IN  <<g1 + g2, (1 - g1) + (1 - g2)>>

\* the checklist of calculate_score up to the red flags block
checklist_points(self) ==
    LET s0 == 0
        s1 == s0 + valuation_points(self)
        s2 == IF get(self, "profitMargins") > self.benchmark["margin"]
              THEN s1 + 10 ELSE s1
        s3 == IF get(self, "returnOnEquity") > self.benchmark["roe"]
              THEN s2 + 10 ELSE s2
        s4 == IF get(self, "revenueGrowth") > 5 THEN s3 + 10 ELSE s3
        s5 == IF get(self, "earningsGrowth") > 5 THEN s4 + 10 ELSE s4
        s6 == IF get(self, "currentRatio") > 150 THEN s5 + 10 ELSE s5
        s7 == IF frac_lt(de_ratio(self), 100) THEN s6 + 10 ELSE s6
    IN  s7

\* calculate_score without the max(0, ...) around the flag term
calculate_score_nomax(self) ==
    LET fl == score_flags(self)
    IN  Min(checklist_points(self) + (fl[1] - fl[2]) * 3, max_score)

\* calculate_score with a term read from the statements
calculate_score_statements(self) ==
    LET fl == score_flags(self)
        s8 == checklist_points(self) + Max(0, (fl[1] - fl[2]) * 3)
    IN  Min(s8 + (IF self.financials # None THEN 1 ELSE 0), max_score)

\* FundamentalAnalyst.calculate_score
calculate_score(self) ==
    LET s7 == checklist_points(self)
        fl == score_flags(self)
        s8 == s7 + Max(0, (fl[1] - fl[2]) * 3)
    IN  Min(s8, max_score)

\* the analyst as calculate_score leaves it: the method assigns no attribute
after_calculate_score(self) == self

\* the k-th statement attribute after n statements were fetched
Statement(n, k, old) == IF n >= k THEN Some("DataFrame") ELSE old

----------------------------------------------------------------------------
(* BenchmarkEngine *)

SECTOR_ETF_MAP ==
    ("Technology" :> "XLK") @@ ("Financial Services" :> "XLF")
    @@ ("Healthcare" :> "XLV") @@ ("Consumer Cyclical" :> "XLY")
    @@ ("Energy" :> "XLE") @@ ("Industrials" :> "XLI")
    @@ ("Consumer Defensive" :> "XLP") @@ ("Utilities" :> "XLU")
    @@ ("Real Estate" :> "XLRE") @@ ("Communication Services" :> "XLC")
    @@ ("Basic Materials" :> "XLB")

\* SECTOR_ETF_MAP.get(sector, 'SPY'); sector may be None
etf_ticker_of(sector) ==
    IF sector # None /\ sector[1] \in DOMAIN SECTOR_ETF_MAP
    THEN SECTOR_ETF_MAP[sector[1]]
    ELSE "SPY"

\* the mapping of the except branch of get_benchmark
DEFAULT_BENCHMARK ==
    [ticker |-> "DEFAULT", pe |-> 2000, pb |-> 300, ps |-> 200,
     margin |-> 10, roe |-> 12, roa |-> 5]

\* info.get(key, default) or default
get_or(info, key, default) ==
    or_default(dict_get_default(info, key, Some(default)), default)

\* info.get(key, default), with the default only for a None
get_or_none_only(info, key, default) ==
    LET val == dict_get_default(info, key, Some(default))
    IN  IF val = None THEN default ELSE val[1]

\* get_benchmark without the `or default` for a falsy value
get_benchmark_zero(sector, etf) ==
    IF etf = None
    THEN DEFAULT_BENCHMARK
    ELSE [ticker |-> etf_ticker_of(sector),
          pe     |-> get_or_none_only(etf[1], "trailingPE", 2000),
          pb     |-> get_or_none_only(etf[1], "priceToBook", 300),
          ps     |-> get_or_none_only(etf[1], "priceToSalesTrailing12Months", 200),
          margin |-> get_or_none_only(etf[1], "profitMargins", 10),
          roe    |-> get_or_none_only(etf[1], "returnOnEquity", 12),
          roa    |-> get_or_none_only(etf[1], "returnOnAssets", 5)]

\* BenchmarkEngine.get_benchmark(sector).  etf is what the provider answers
\* for the ETF: Some(info mapping), or None when the lookup raises.
get_benchmark(sector, etf) ==
    IF etf = None
    THEN DEFAULT_BENCHMARK
    ELSE [ticker |-> etf_ticker_of(sector),
          pe     |-> get_or(etf[1], "trailingPE", 2000),
          pb     |-> get_or(etf[1], "priceToBook", 300),
          ps     |-> get_or(etf[1], "priceToSalesTrailing12Months", 200),
          margin |-> get_or(etf[1], "profitMargins", 10),
          roe    |-> get_or(etf[1], "returnOnEquity", 12),
          roa    |-> get_or(etf[1], "returnOnAssets", 5)]

----------------------------------------------------------------------------
(* FundamentalAnalyst: construction and loading *)

\* str.upper() on the ticker inputs of the model
upper(t) == IF t = "aapl" THEN "AAPL" ELSE t

\* FundamentalAnalyst.__init__(ticker)
FundamentalAnalyst(ticker) ==
    [ticker |-> upper(ticker), info |-> EmptyDict, financials |-> None,
     balance |-> None, cashflow |-> None, history |-> None,
     benchmark |-> EmptyDict]

\* the test of load_all_data that raises ValueError("Ticker ... not found")
not_found(info) ==
    /\ ~truthy(dict_get(info, "currentPrice"))
    /\ ~truthy(dict_get(info, "regularMarketPrice"))

\* load_all_data with the not-found test made after the fetches
load_all_data_late(self, info, n, etf) ==
    [self EXCEPT
        !.info = info,
        !.financials = Statement(n, 1, @),
        !.balance = Statement(n, 2, @),
        !.cashflow = Statement(n, 3, @),
        !.history = Statement(n, 4, @),
        !.benchmark = get_benchmark(
            dict_get_default(info, "sector", Some("Unknown")), etf)]

\* the analyst as load_all_data leaves it.  info is the provider's answer,
\* n the number of statements fetched before a fetch raised (4: none did),
\* etf the provider's answer for the sector ETF.
load_all_data(self, info, n, etf) ==
    IF not_found(info)
    THEN [self EXCEPT !.info = info]
    ELSE [self EXCEPT
            !.info = info,
            !.financials = Statement(n, 1, @),
            !.balance = Statement(n, 2, @),
            !.cashflow = Statement(n, 3, @),
            !.history = Statement(n, 4, @),
            !.benchmark = get_benchmark(
                dict_get_default(info, "sector", Some("Unknown")), etf)]

StatementEndpoints == <<"financials", "balance_sheet", "cashflow", "history">>

\* the provider endpoints load_all_data requests
load_requests(info, n) ==
    IF not_found(info)
    THEN {"info"}
    ELSE {"info", "etf_info"}
         \cup {StatementEndpoints[k] : k \in 1..Min(n + 1, 4)}

----------------------------------------------------------------------------
(* DataAuditor *)

\* a DataAuditor whose counters and lists are shared with the auditor
\* constructed before it
DataAuditor_shared(an) == auditor

\* DataAuditor.__init__(analyst); the analyst it audits is passed to
\* verify_all, main never rebinds it in between
DataAuditor(an) ==
    [errors |-> <<>>, warnings |-> <<>>, verified_items |-> 0,
     total_checks |-> 0]

\* a or b, for floats
float_or(a, b) == IF a # 0 THEN a ELSE b

abs(x) == IF x < 0 THEN 0 - x ELSE x

\* abs(pe_calc - pe) / pe < 0.05 with pe_calc = current_price / eps, in
\* hundredths and for eps > 0, pe # 0: a negative pe makes the quotient
\* negative or zero
pe_agrees(current_price, eps, pe) ==
    IF pe < 0 THEN TRUE
    ELSE 20 * abs(100 * current_price - pe * eps) < eps * pe

\* a verify_all that starts from cleared counters and lists
verify_all_reset(self, an) ==
    LET total == 4
        ok1 == DOMAIN an.info # {}
        price == float_or(get(an, "currentPrice"),
                          get(an, "regularMarketPrice"))
        verified == (IF ok1 THEN 1 ELSE 0) + (IF price > 0 THEN 1 ELSE 0)
        warned == IF price > 0 THEN <<>> ELSE <<"Precio actual no disponible">>
        after == [self EXCEPT !.total_checks = total,
                              !.verified_items = verified,
                              !.warnings = warned]
    IN  <<after,
          [total_checks |-> total,
           verified |-> verified,
           warnings |-> Len(warned),
           errors |-> 0,
           success_rate |-> <<verified * 100, total>>,
           warning_list |-> warned,
           error_list |-> <<>>]>>

\* DataAuditor.verify_all(): <<the auditor afterwards, the report returned>>
verify_all(self, an) ==
    LET current_price == float_or(get(an, "currentPrice"),
                                  get(an, "regularMarketPrice"))
        pe  == get(an, "trailingPE")
        eps == get(an, "trailingEps")
        gross_margin == get(an, "grossMargins")
        ok1 == DOMAIN an.info # {}
        ok2 == current_price # 0 /\ current_price > 0
        try3 == pe # 0 /\ current_price # 0 /\ eps # 0 /\ eps > 0
        ok3 == try3 /\ pe_agrees(current_price, eps, pe)
        ok4 == gross_margin # 0 /\ 0 <= gross_margin /\ gross_margin <= 100
        n(b) == IF b THEN 1 ELSE 0
        w2 == IF ok2 THEN <<>> ELSE <<"Precio actual no disponible">>
        w3 == IF try3 /\ ~ok3 THEN <<"P/E discrepancia detectada">> ELSE <<>>
        after == [self EXCEPT
                    !.total_checks = @ + 4,
                    !.verified_items = @ + n(ok1) + n(ok2) + n(ok3) + n(ok4),
                    !.warnings = @ \o w2 \o w3]
        success_rate == IF after.total_checks > 0
                        THEN <<after.verified_items * 100, after.total_checks>>
                        ELSE <<0, 1>>
    IN  <<after,
          [total_checks |-> after.total_checks,
           verified |-> after.verified_items,
           warnings |-> Len(after.warnings),
           errors |-> Len(after.errors),
           success_rate |-> success_rate,
           warning_list |-> after.warnings,
           error_list |-> after.errors]>>

----------------------------------------------------------------------------
(* main: what the report sections compute and show *)

\* the valuation status of section 2: the message shown, if any
valuation_status(self) ==
    LET pe == get(self, "trailingPE")
        benchmark_pe == self.benchmark["pe"]
    IN  IF pe > 0 /\ benchmark_pe > 0
        THEN IF pe * 10 < 8 * benchmark_pe THEN <<"UNDERVALUED">>
             ELSE IF pe * 10 > 12 * benchmark_pe THEN <<"OVERVALUED">>
             ELSE <<"FAIRLY VALUED">>
        ELSE <<>>

\* the 52-week position of section 8 divides by (week52_high - week52_low)
week52_divides_by_zero(self) ==
    LET current_price == float_or(get(self, "currentPrice"),
                                  get(self, "regularMarketPrice"))
        week52_high == get(self, "fiftyTwoWeekHigh")
        week52_low == get(self, "fiftyTwoWeekLow")
    IN  /\ week52_high > 0 /\ week52_low > 0 /\ current_price > 0
        /\ week52_high = week52_low

\* sections 1 to 9 of the report: <<what is shown, the exception raised>>,
\* the exception "none" when all nine sections are shown.  The revenue chart
\* is drawn from the financials statement when it was fetched; what fails
\* while drawing it is swallowed there and changes nothing else.
report_sections(self) ==
    LET out1 == <<"Company Overview">>
        out2 == out1 \o <<"Valuation Metrics">>
        out3 == out2 \o valuation_status(self) \o <<"Profitability">>
        out7 == out3 \o <<"Financial Health", "Growth Metrics">>
                \o (IF self.financials # None THEN <<"Revenue Trend">> ELSE <<>>)
                \o <<"Cash Flow Analysis", "Dividends">>
        out8 == out7 \o <<"Risk Assessment">>
        out9 == out8 \o <<"Wall Street Consensus">>
    IN  IF dict_get_default(self.info, "industry", Some("N/A")) = None
        THEN <<out1, "TypeError">>
        ELSE IF "pe" \notin DOMAIN self.benchmark
        THEN <<out2, "KeyError">>
        ELSE IF "margin" \notin DOMAIN self.benchmark
        THEN <<out3, "KeyError">>
        ELSE IF week52_divides_by_zero(self)
        THEN <<out8, "ZeroDivisionError">>
        ELSE <<out9, "none">>

\* green_flags and red_flags of the Quality Checks section
quality_flags(self) ==
    LET eps == IF get(self, "trailingEps") < 0
               THEN <<<<>>, <<"Company is not profitable (negative EPS)">>>>
               ELSE <<<<"Positive earnings">>, <<>>>>
        lev == IF frac_gt(de_ratio(self), 200)
               THEN <<<<>>, <<"High leverage">>>>
               ELSE IF frac_lt(de_ratio(self), 50)
               THEN <<<<"Low debt levels">>, <<>>>>
               ELSE <<<<>>, <<>>>>
        fcf == IF get(self, "freeCashflow") < 0
               THEN <<<<>>, <<"Negative free cash flow">>>>
               ELSE <<<<"Positive free cash flow">>, <<>>>>
        liq == IF get(self, "currentRatio") < 100
               THEN <<<<>>, <<"Liquidity concern">>>>
               ELSE IF get(self, "currentRatio") > 150
               THEN <<<<"Strong liquidity position">>, <<>>>>
               ELSE <<<<>>, <<>>>>
    IN  <<eps[1] \o lev[1] \o fcf[1] \o liq[1],
          eps[2] \o lev[2] \o fcf[2] \o liq[2]>>

\* what the Quality Checks section shows
quality_section(self) ==
    LET fl == quality_flags(self)
    IN  <<"Quality Checks">>
        \o (IF fl[1] # <<>> THEN <<"STRENGTHS">> \o fl[1] ELSE <<>>)
        \o (IF fl[2] # <<>> THEN <<"RED FLAGS">> \o fl[2] ELSE <<>>)

\* rating_of with `>` for `>=`
rating_of_strict(s) ==
    IF s > 80 THEN "STRONG BUY"
    ELSE IF s > 60 THEN "BUY"
    ELSE IF s > 40 THEN "HOLD"
    ELSE IF s > 20 THEN "SELL"
    ELSE "STRONG SELL"

\* the rating of the Investment Verdict
rating_of(s) ==
    IF s >= 80 THEN "STRONG BUY"
    ELSE IF s >= 60 THEN "BUY"
    ELSE IF s >= 40 THEN "HOLD"
    ELSE IF s >= 20 THEN "SELL"
    ELSE "STRONG SELL"

\* the text beside the rating
verdict_of(s) ==
    IF s >= 60 THEN "Strong Fundamentals"
    ELSE IF s >= 40 THEN "Mixed Signals"
    ELSE "Weak Fundamentals"

\* what the Data Audit Report section shows for a report of verify_all
audit_section(r) ==
    <<"Data Audit Report">>
    \o (IF r.success_rate[1] >= 80 * r.success_rate[2]
        THEN <<"Data quality is excellent">>
        ELSE IF r.success_rate[1] >= 60 * r.success_rate[2]
        THEN <<"Data quality is acceptable">>
        ELSE <<"Data quality issues detected">>)
    \o (IF r.warning_list # <<>> THEN <<"View Warnings">> ELSE <<>>)

\* the exception classes raised in the model; each derives from Exception
Exceptions ==
    {"ValueError", "TypeError", "KeyError", "ZeroDivisionError",
     "ConnectionError", "StreamlitAPIException"}

\* a handler `except ValueError`
handler_catches_value_error(kind) == kind = "ValueError"

\* `except Exception as e` of main
handler_catches(kind) == kind \in Exceptions

\* how a script run ended, read off the page
outcome(page) ==
    IF page = <<>> THEN "none"
    ELSE IF page[Len(page)] = "hint" THEN "hint"
    ELSE IF page[Len(page)] = "disclaimer" THEN "report"
    ELSE IF page[Len(page)] = "error" THEN "error"
    ELSE "killed"

----------------------------------------------------------------------------
(* Inputs of the scoring specification *)

\* the choices for one key of a provider mapping: missing, or one of vals
Choices(key, vals) == {EmptyDict} \cup {key :> Some(v) : v \in vals}

\* as Choices, and the key may also be present with the value None
ChoicesNone(key, vals) == Choices(key, vals) \cup {key :> None}

ScoreInfos ==
    { a @@ b @@ c @@ d @@ e @@ f @@ g @@ h @@ i :
        a \in ChoicesNone("trailingPE", {-100, 1500, 1600, 2400, 2500}),
        b \in Choices("profitMargins", {20}),
        c \in Choices("returnOnEquity", {30}),
        d \in Choices("revenueGrowth", {5, 6}),
        e \in {"earningsGrowth" :> Some(v) : v \in {5, 6}},
        f \in {"currentRatio" :> Some(v) : v \in {150, 151}},
        g \in Choices("debtToEquity", {50, 100, 1000, 5000, 10000}),
        h \in Choices("trailingEps", {-100, 0, 100}),
        i \in Choices("freeCashflow", {-100, 100}) }

\* benchmark mappings get_benchmark can return: the DEFAULT values, an ETF
\* with its own ratios, and an ETF whose reported ratios are negative
ScoreBenchmarks ==
    { [ticker |-> "DEFAULT", pe |-> 2000, pb |-> 300, ps |-> 200,
       margin |-> 10, roe |-> 12, roa |-> 5],
      [ticker |-> "XLK", pe |-> 2500, pb |-> 300, ps |-> 200,
       margin |-> 20, roe |-> 30, roa |-> 5],
      [ticker |-> "SPY", pe |-> -2000, pb |-> 300, ps |-> 200,
       margin |-> -10, roe |-> -12, roa |-> 5] }

Tickers == {"AAPL", "MSFT"}

Statements == {None, Some("DataFrame")}

----------------------------------------------------------------------------
(* The scoring specification: calculate_score applied to drawn inputs *)

MaxCalls == 2

\* before the first script run no analyst and no auditor were constructed
NoAnalyst ==
    [ticker |-> "", info |-> EmptyDict, financials |-> None,
     balance |-> None, cashflow |-> None, history |-> None,
     benchmark |-> EmptyDict]

NoAuditor ==
    [errors |-> <<>>, warnings |-> <<>>, verified_items |-> 0,
     total_checks |-> 0]

InitIdleMain ==
    /\ pc = "idle"
    /\ analyze_button = FALSE
    /\ ticker_input = ""
    /\ auditor = NoAuditor
    /\ score = None
    /\ rating = None
    /\ audit_results = None
    /\ shown = <<>>
    /\ fetched = {}
    /\ err = "none"
    /\ alive = TRUE
    /\ last_outcome = "none"

InitNoPortfolio ==
    /\ returns = <<>>
    /\ capital = 0
    /\ values = <<>>
    /\ drawdown = None

InitScore ==
    /\ InitIdleMain
    /\ InitNoPortfolio
    /\ results = <<>>
    /\ \E i \in ScoreInfos, b \in ScoreBenchmarks :
          analyst = [ticker |-> "AAPL", info |-> i, financials |-> None,
                     balance |-> None, cashflow |-> None, history |-> None,
                     benchmark |-> b]

\* analyst.calculate_score()
CalculateScore ==
    /\ Len(results) < MaxCalls
    /\ results' = Append(results, calculate_score(analyst))
    /\ analyst' = after_calculate_score(analyst)
    /\ UNCHANGED <<main_vars, portfolio_vars>>

\* calculate_score() on another analyst that has the same info and the same
\* benchmark, and any ticker and statements
CalculateScoreOther ==
    /\ Len(results) < MaxCalls
    /\ \E t \in Tickers, s \in Statements :
          LET other == [analyst EXCEPT !.ticker = t, !.financials = s,
                                       !.balance = s, !.cashflow = s,
                                       !.history = s]
          IN  results' = Append(results, calculate_score(other))
    /\ UNCHANGED <<analyst, main_vars, portfolio_vars>>

NextScore == CalculateScore \/ CalculateScoreOther

SpecScore == InitScore /\ [][NextScore]_vars

----------------------------------------------------------------------------
(* The application: script runs of main() *)

TickerInputs == {"", "aapl"}

\* the other ratios of a provider answer, taken together: none, or those
\* of a strong company
RatioBundles ==
    { EmptyDict,
      ("profitMargins" :> Some(20)) @@ ("returnOnEquity" :> Some(30))
        @@ ("revenueGrowth" :> Some(6)) @@ ("earningsGrowth" :> Some(6))
        @@ ("currentRatio" :> Some(151)) @@ ("debtToEquity" :> Some(5000))
        @@ ("grossMargins" :> Some(40)) }

\* answers of stock.info for a technology company
CompanyInfos ==
    { a @@ d @@ e @@ f @@ g @@ ("sector" :> Some("Technology"))
        @@ ("industry" :> Some("Consumer Electronics")) :
        a \in { EmptyDict, "currentPrice" :> Some(0),
                "currentPrice" :> Some(2400),
                "regularMarketPrice" :> Some(2400) },
        d \in Choices("trailingPE", {1600, 2400, 3000}),
        e \in Choices("trailingEps", {-100, 100}),
        f \in { "freeCashflow" :> Some(v) : v \in {-100, 0, 100} },
        g \in RatioBundles }

\* the empty answer, and answers with no sector, a sector the map does not know, a None sector, a
\* None industry, and a 52-week range whose high equals its low
OddInfos ==
    LET base == ("currentPrice" :> Some(2400)) @@ ("trailingPE" :> Some(2400))
                @@ ("trailingEps" :> Some(100)) @@ ("freeCashflow" :> Some(100))
    IN  { EmptyDict,
          base @@ ("industry" :> Some("Banks")),
          base @@ ("industry" :> Some("Banks")) @@ ("sector" :> Some("Conglomerates")),
          base @@ ("industry" :> Some("Banks")) @@ ("sector" :> None),
          base @@ ("industry" :> None) @@ ("sector" :> Some("Energy")),
          base @@ ("sector" :> Some("Energy"))
               @@ ("fiftyTwoWeekHigh" :> Some(2400))
               @@ ("fiftyTwoWeekLow" :> Some(2400)) }

\* what stock.info can answer
ProviderInfos == CompanyInfos \cup OddInfos

\* what the provider can answer for the sector ETF: None when the lookup
\* raises, else its info mapping
EtfAnswers ==
    { None,
      Some(EmptyDict),
      Some(("trailingPE" :> Some(0)) @@ ("priceToBook" :> None)
           @@ ("profitMargins" :> Some(0)) @@ ("returnOnEquity" :> None)),
      Some(("trailingPE" :> Some(2500)) @@ ("priceToBook" :> Some(900))
           @@ ("priceToSalesTrailing12Months" :> Some(700))
           @@ ("profitMargins" :> Some(20)) @@ ("returnOnEquity" :> Some(30))
           @@ ("returnOnAssets" :> Some(10))) }

\* how many statements are fetched before a fetch raises (4: none raises)
StatementAnswers == {0, 4}

\* exceptions a provider call and a presentation call can raise
ProviderFaults == {"ConnectionError"}

RenderFaults == {"StreamlitAPIException"}

Init ==
    /\ InitIdleMain
    /\ InitNoPortfolio
    /\ analyst = NoAnalyst
    /\ results = <<>>

\* an exception of class kind leaves the try body of main after `out` was
\* shown: the handler shows the error, or the exception leaves main
Raised(kind, out) ==
    IF handler_catches(kind)
    THEN /\ shown' = shown \o out \o <<"error">>
         /\ err' = kind
         /\ pc' = "idle"
         /\ alive' = alive
    ELSE /\ shown' = shown \o out
         /\ err' = err
         /\ pc' = "idle"
         /\ alive' = FALSE

\* a script run that enters the analysis whatever the button and the ticker
ScriptRun_unguarded ==
    /\ pc = "idle" /\ alive
    /\ \E b \in BOOLEAN, t \in TickerInputs :
          /\ analyze_button' = b
          /\ ticker_input' = t
          /\ shown' = <<>> /\ pc' = "construct"
    /\ last_outcome' = outcome(shown)
    /\ score' = None /\ rating' = None /\ audit_results' = None
    /\ fetched' = {} /\ err' = "none"
    /\ UNCHANGED <<analyst, auditor, alive, results, portfolio_vars>>

\* streamlit runs the script: main() up to `if analyze_button and ticker_input`
ScriptRun ==
    /\ pc = "idle" /\ alive
    /\ \E b \in BOOLEAN, t \in TickerInputs :
          /\ analyze_button' = b
          /\ ticker_input' = t
          /\ IF b /\ t # ""
             THEN shown' = <<>> /\ pc' = "construct"
             ELSE shown' = <<"hint">> /\ pc' = "idle"
    /\ last_outcome' = outcome(shown)
    /\ score' = None /\ rating' = None /\ audit_results' = None
    /\ fetched' = {} /\ err' = "none"
    /\ UNCHANGED <<analyst, auditor, alive, results, portfolio_vars>>

\* analyst = FundamentalAnalyst(ticker_input)
Construct ==
    /\ pc = "construct" /\ alive
    /\ \E fault \in {"none"} \cup ProviderFaults :
          IF fault = "none"
          THEN /\ analyst' = FundamentalAnalyst(ticker_input)
               /\ pc' = "load"
               /\ UNCHANGED <<shown, err, alive>>
          ELSE /\ Raised(fault, <<>>)
               /\ UNCHANGED analyst
    /\ UNCHANGED <<analyze_button, ticker_input, auditor, score, rating,
                   audit_results, fetched, last_outcome, results,
                   portfolio_vars>>

\* analyst.load_all_data()
LoadAllData ==
    /\ pc = "load" /\ alive
    /\ \E resp \in {None} \cup {Some(i) : i \in ProviderInfos},
          n \in StatementAnswers, etf \in EtfAnswers :
          IF resp = None
          THEN /\ fetched' = fetched \cup {"info"}
               /\ Raised("ConnectionError", <<>>)
               /\ UNCHANGED analyst
          ELSE /\ analyst' = load_all_data(analyst, resp[1], n, etf)
               /\ fetched' = fetched \cup load_requests(resp[1], n)
               /\ IF not_found(resp[1])
                  THEN Raised("ValueError", <<>>)
                  ELSE pc' = "report" /\ UNCHANGED <<shown, err, alive>>
    /\ UNCHANGED <<analyze_button, ticker_input, auditor, score, rating,
                   audit_results, last_outcome, results, portfolio_vars>>

\* sections 1 to 9 of the report
ReportSections ==
    /\ pc = "report" /\ alive
    /\ \E fault \in {"none"} \cup RenderFaults :
          IF fault # "none"
          THEN Raised(fault, <<>>)
          ELSE LET r == report_sections(analyst)
               IN  IF r[2] = "none"
                   THEN /\ shown' = shown \o r[1]
                        /\ pc' = "verdict"
                        /\ UNCHANGED <<err, alive>>
                   ELSE Raised(r[2], r[1])
    /\ UNCHANGED <<analyze_button, ticker_input, analyst, auditor, score,
                   rating, audit_results, fetched, last_outcome, results,
                   portfolio_vars>>

\* the Quality Checks section and the Investment Verdict
InvestmentVerdict ==
    /\ pc = "verdict" /\ alive
    /\ \E fault \in {"none"} \cup RenderFaults :
          IF fault # "none"
          THEN Raised(fault, <<>>) /\ UNCHANGED <<score, rating>>
          ELSE LET s == calculate_score(analyst)
               IN  /\ score' = Some(s)
                   /\ rating' = Some(rating_of(s))
                   /\ shown' = shown \o quality_section(analyst)
                                \o <<"Fundamental Score", rating_of(s),
                                     verdict_of(s)>>
                   /\ pc' = "audit"
                   /\ UNCHANGED <<err, alive>>
    /\ UNCHANGED <<analyze_button, ticker_input, analyst, auditor,
                   audit_results, fetched, last_outcome, results,
                   portfolio_vars>>

\* the Data Audit Report section
DataAudit ==
    /\ pc = "audit" /\ alive
    /\ \E fault \in {"none"} \cup RenderFaults :
          IF fault # "none"
          THEN Raised(fault, <<>>) /\ UNCHANGED <<auditor, audit_results>>
          ELSE LET v == verify_all(DataAuditor(analyst), analyst)
               IN  /\ auditor' = v[1]
                   /\ audit_results' = Some(v[2])
                   /\ shown' = shown \o audit_section(v[2])
                   /\ pc' = "disclaimer"
                   /\ UNCHANGED <<err, alive>>
    /\ UNCHANGED <<analyze_button, ticker_input, analyst, score, rating,
                   fetched, last_outcome, results, portfolio_vars>>

\* the disclaimer that ends the report
Disclaimer ==
    /\ pc = "disclaimer" /\ alive
    /\ \E fault \in {"none"} \cup RenderFaults :
          IF fault # "none"
          THEN Raised(fault, <<>>)
          ELSE /\ shown' = shown \o <<"disclaimer">>
               /\ pc' = "idle"
               /\ UNCHANGED <<err, alive>>
    /\ UNCHANGED <<analyze_button, ticker_input, analyst, auditor, score,
                   rating, audit_results, fetched, last_outcome, results,
                   portfolio_vars>>

Next ==
    \/ ScriptRun
    \/ Construct
    \/ LoadAllData
    \/ ReportSections
    \/ InvestmentVerdict
    \/ DataAudit
    \/ Disclaimer

Spec == Init /\ [][Next]_vars

----------------------------------------------------------------------------
(* Claims about script runs, checked under Spec *)

\* the current run has loaded its analyst: load_all_data returned
Loaded == pc \in {"report", "verdict", "audit", "disclaimer"} \/ score # None

\* a failure was raised and swallowed inside load_all_data or get_benchmark
\* of an analyst: a statement fetch raised, or the ETF lookup did
SwallowedFailure(self) ==
    self.history = None \/ self.benchmark["ticker"] = "DEFAULT"

\* C3 as claimed: every failure raised during an analysis run is caught by
\* the top-level handler and shown as an error message, so a run in which a
\* failure was raised never ends with the complete report.
C3_EveryFailureShown ==
    (pc = "idle" /\ outcome(shown) = "report") => ~SwallowedFailure(analyst)

\* C3 amended: every failure that leaves the try body of main (raised while
\* constructing the analyst, by the info fetch or the not-found test of
\* load_all_data, or in a report section) is caught by the top-level handler
\* and shown as the error message that ends the run; failures of the
\* statement fetches and of the ETF lookup are swallowed where they are
\* raised and show nothing.  No failure ends the process.
C3_FailuresNeverFatal ==
    /\ alive
    /\ err # "none" =>
          /\ pc = "idle"
          /\ err \in Exceptions
          /\ shown[Len(shown)] = "error"
    /\ \A k \in DOMAIN shown :
          shown[k] = "error" => k = Len(shown) /\ err # "none"

\* a run ended with the complete report right after a run that ended with
\* the error message
C3_Witness ==
    /\ pc = "idle"
    /\ last_outcome = "error"
    /\ outcome(shown) = "report"

\* C4: when the provider answers with an info that has neither a non-zero
\* currentPrice nor a non-zero regularMarketPrice, load_all_data raises the
\* not-found ValueError before it fetches any statement or benchmark, and
\* main shows the error message and nothing else.
C4_NotFoundStopsRun ==
    ("info" \in fetched /\ err # "ConnectionError" /\ not_found(analyst.info)) =>
        /\ err = "ValueError"
        /\ fetched = {"info"}
        /\ analyst.benchmark = EmptyDict
        /\ analyst.financials = None /\ analyst.balance = None
        /\ analyst.cashflow = None /\ analyst.history = None
        /\ shown = <<"error">>
        /\ score = None /\ rating = None /\ audit_results = None
        /\ pc = "idle"

\* the provider answered with a currentPrice of 0 and no regularMarketPrice
C4_Witness ==
    /\ err = "ValueError"
    /\ dict_get(analyst.info, "currentPrice") = Some(0)
    /\ "regularMarketPrice" \notin DOMAIN analyst.info

\* C5: nothing persists between runs: the analyst of a run is built for its
\* ticker, the score and rating are those of that analyst, and the audit
\* report is that of a fresh auditor on it, with total_checks = 4.
C5_NothingPersists ==
    /\ pc \in {"load", "report", "verdict", "audit", "disclaimer"} =>
          analyst.ticker = upper(ticker_input)
    /\ score # None =>
          /\ score[1] = calculate_score(analyst)
          /\ rating = Some(rating_of(score[1]))
    /\ audit_results # None =>
          /\ audit_results[1].total_checks = 4
          /\ audit_results[1] = verify_all(NoAuditor, analyst)[2]
          /\ auditor.total_checks = 4

\* an audit report is shown in a run that follows a complete report
C5_Witness ==
    /\ audit_results # None
    /\ last_outcome = "report"

\* C10: calculate_score runs only after load_all_data returned, and then the
\* benchmark holds ticker, pe, pb, ps, margin, roe and roa, none of them zero,
\* under the ETF's ticker (SPY for a sector the map does not know) or under
\* DEFAULT when the ETF lookup failed; no run fails on a missing key.
C10_BenchmarkComplete ==
    /\ err # "KeyError"
    /\ Loaded =>
          /\ "etf_info" \in fetched
          /\ ~not_found(analyst.info)
          /\ DOMAIN analyst.benchmark =
                {"ticker", "pe", "pb", "ps", "margin", "roe", "roa"}
          /\ \A k \in {"pe", "pb", "ps", "margin", "roe", "roa"} :
                analyst.benchmark[k] # 0
          /\ analyst.benchmark["ticker"] \in
                {"DEFAULT", "SPY"} \cup {SECTOR_ETF_MAP[s] : s \in DOMAIN SECTOR_ETF_MAP}
          /\ LET sector == dict_get_default(analyst.info, "sector", Some("Unknown"))
             IN  (sector = None \/ sector[1] \notin DOMAIN SECTOR_ETF_MAP)
                    => analyst.benchmark["ticker"] \in {"DEFAULT", "SPY"}

\* a score was computed on the DEFAULT benchmark, the ETF lookup having failed
C10_Witness ==
    /\ score # None
    /\ analyst.benchmark["ticker"] = "DEFAULT"

\* the positions of a tag on the page
Places(page, tag) == {k \in DOMAIN page : page[k] = tag}

\* the run asked for an analysis: `analyze_button and ticker_input`
Requested == analyze_button /\ ticker_input # ""

\* what holds of a run at every point of it
C12_OutcomeState ==
    /\ alive
    \* the three endings exclude each other and nothing follows one
    /\ \A k \in DOMAIN shown :
          shown[k] \in {"hint", "disclaimer", "error"} => k = Len(shown)
    /\ Places(shown, "disclaimer") = {} \/ Places(shown, "error") = {}
    \* a run that has ended has one of the three endings
    /\ (pc = "idle" /\ shown # <<>>) =>
          /\ outcome(shown) \in {"hint", "report", "error"}
          /\ outcome(shown) = "hint" <=> ~Requested
          /\ outcome(shown) = "error" <=> err # "none"
    /\ pc # "idle" => Requested
    \* the idle hint stands alone: no provider call, no score, no audit
    /\ ~Requested =>
          /\ shown \in {<<>>, <<"hint">>}
          /\ fetched = {}
          /\ score = None /\ audit_results = None
    \* the complete report holds the score and the audit before the disclaimer
    /\ Places(shown, "disclaimer") # {} =>
          /\ score # None /\ audit_results # None
          /\ Places(shown, "Fundamental Score") # {}
          /\ Places(shown, "Data Audit Report") # {}
    \* score and audit are produced after the report sections, in this order,
    \* and an error beside them comes after them
    /\ score # None <=> Places(shown, "Fundamental Score") # {}
    /\ audit_results # None <=> Places(shown, "Data Audit Report") # {}
    /\ score # None => Places(shown, "Wall Street Consensus") # {}
    /\ audit_results # None => score # None
    /\ \A i \in Places(shown, "Fundamental Score") \cup
                 Places(shown, "Data Audit Report") :
          \A j \in Places(shown, "error") : i < j

\* what holds of every step of a run
C12_OutcomeStep ==
    /\ analyst' # analyst => Requested /\ pc \in {"construct", "load"}
    /\ fetched' \notin {{}, fetched} => Requested /\ pc = "load"
    /\ shown' = <<"hint">> => analyst' = analyst /\ fetched' = {}

\* C12: every script run of main ends in exactly one of three outcomes: the
\* idle hint (exactly when the button was not pressed or the ticker is empty;
\* then no analyst is constructed and no provider call is made), a complete
\* report that ends with the disclaimer, or the error message.  The
\* disclaimer and the error message are never both shown in one run, and the
\* score and the audit report are produced only in a run that ends with the
\* complete report or with an error raised after them.
C12_RunOutcomes == []C12_OutcomeState /\ [][C12_OutcomeStep]_vars

\* a run produced the score and the audit report and then ended with the
\* error message, the disclaimer having failed
C12_Witness ==
    /\ pc = "idle"
    /\ outcome(shown) = "error"
    /\ score # None /\ audit_results # None
    /\ last_outcome = "hint"

\* C14: in every run where the trailing P/E and the benchmark P/E are both
\* positive, the valuation status shown agrees with the valuation award in
\* the score, the band boundaries included: UNDERVALUED is shown exactly when
\* 20 points are awarded, FAIRLY VALUED exactly when 10 points are awarded,
\* and OVERVALUED exactly when no point is awarded.
C14_StatusAgreesWithAward ==
    (/\ score # None
     /\ get(analyst, "trailingPE") > 0
     /\ analyst.benchmark["pe"] > 0) =>
        /\ Places(shown, "UNDERVALUED") # {}
              <=> valuation_points(analyst) = 20
        /\ Places(shown, "FAIRLY VALUED") # {}
              <=> valuation_points(analyst) = 10
        /\ Places(shown, "OVERVALUED") # {}
              <=> valuation_points(analyst) = 0

\* a run showed FAIRLY VALUED for a trailing P/E of exactly 1.2 times the
\* benchmark P/E and its score holds no valuation award
C14_BoundaryRun ==
    /\ score # None
    /\ analyst.benchmark["pe"] > 0
    /\ get(analyst, "trailingPE") * 10 = analyst.benchmark["pe"] * 12
    /\ Places(shown, "FAIRLY VALUED") # {}
    /\ valuation_points(analyst) = 0

\* calculate_score counts the ratio under key as a green flag: with a
\* negative value in its place the count of green flags is one less
CountedGreen(self, key) ==
    LET negative == [self EXCEPT !.info = (key :> Some(-1)) @@ self.info]
    IN  score_flags(self)[1] = score_flags(negative)[1] + 1

\* C15: the strengths listed under Quality Checks agree with the flags that
\* calculate_score counts, for every trailing EPS and free cash flow, zero
\* and absent included: Positive earnings is listed exactly when the score
\* counts EPS as a green flag, and Positive free cash flow exactly when it
\* counts free cash flow as a green flag.
C15_FlagsAgreeWithScore ==
    score # None =>
        /\ Places(shown, "Positive earnings") # {}
              <=> CountedGreen(analyst, "trailingEps")
        /\ Places(shown, "Positive free cash flow") # {}
              <=> CountedGreen(analyst, "freeCashflow")

\* a run listed Positive earnings and Positive free cash flow for an absent
\* trailing EPS and a free cash flow of zero, and its score counts two red
\* flags and no green one
C15_ZeroRun ==
    /\ score # None
    /\ "trailingEps" \notin DOMAIN analyst.info
    /\ dict_get(analyst.info, "freeCashflow") = Some(0)
    /\ Places(shown, "Positive earnings") # {}
    /\ Places(shown, "Positive free cash flow") # {}
    /\ score_flags(analyst) = <<0, 2>>

----------------------------------------------------------------------------
(* Claims about calculate_score, checked under SpecScore *)

\* C1: whatever ratios are absent from info and whatever the benchmark holds,
\* every score calculate_score returns is an integer between 0 and 100.
C1_ScoreInRange == \A i \in DOMAIN results : results[i] \in 0..100

\* a call returned 80 for an analyst whose trailingEps is absent
C1_Witness ==
    /\ results # <<>>
    /\ results[1] = 80
    /\ "trailingEps" \notin DOMAIN analyst.info

\* C2: calculate_score is deterministic and read-only: every call on an
\* analyst with this info and this benchmark, whatever its ticker and
\* statements, returns the same score, and a call changes neither info nor
\* benchmark.
C2_Deterministic ==
    /\ [](\A i, j \in DOMAIN results : results[i] = results[j])
    /\ [][/\ analyst'.info = analyst.info
          /\ analyst'.benchmark = analyst.benchmark]_vars

\* two calls were made and returned a score with points in it
C2_Witness == Len(results) >= 2 /\ results[1] > 0 /\ results[2] > 0

\* C6: the valuation award is 20 when 0 < pe < 0.8 * benchmark_pe, 10 when
\* 0.8 * benchmark_pe <= pe < 1.2 * benchmark_pe, and 0 otherwise (also when
\* pe is absent or not positive, or benchmark_pe is not positive); never 30.
C6_ValuationAward ==
    LET raw == dict_get(analyst.info, "trailingPE")
        pe  == IF raw = None THEN 0 ELSE raw[1]
        bpe == analyst.benchmark["pe"]
        claimed ==
            IF raw # None /\ 0 < pe /\ pe * 10 < 8 * bpe THEN 20
            ELSE IF raw # None /\ 0 < pe /\ 8 * bpe <= pe * 10
                    /\ pe * 10 < 12 * bpe THEN 10
            ELSE 0
    IN  results # <<>> => valuation_points(analyst) = claimed

\* scored with the P/E exactly at 0.8 times a positive benchmark P/E
C6_Witness ==
    /\ results # <<>>
    /\ analyst.benchmark["pe"] > 0
    /\ get(analyst, "trailingPE") * 10 = analyst.benchmark["pe"] * 8
    /\ valuation_points(analyst) = 10

\* C7: the score is the sum of the awards granted: the valuation award, ten
\* points for each of margin, ROE, revenue growth, earnings growth, current
\* ratio and leverage, and a flag bonus that is 6 when trailing EPS > 0 and
\* free cash flow > 0 and 0 otherwise; the sum is at most 86, so the cap at
\* 100 never changes it.
C7_SumOfAwards ==
    LET a(cond) == IF cond THEN 10 ELSE 0
        bonus == IF get(analyst, "trailingEps") > 0
                    /\ get(analyst, "freeCashflow") > 0 THEN 6 ELSE 0
        sum == valuation_points(analyst)
               + a(get(analyst, "profitMargins") > analyst.benchmark["margin"])
               + a(get(analyst, "returnOnEquity") > analyst.benchmark["roe"])
               + a(get(analyst, "revenueGrowth") > 5)
               + a(get(analyst, "earningsGrowth") > 5)
               + a(get(analyst, "currentRatio") > 150)
               + a(frac_lt(de_ratio(analyst), 100))
               + bonus
    IN  \A i \in DOMAIN results : results[i] = sum /\ sum <= 86

\* a call returned the largest sum, 86
C7_Witness == results # <<>> /\ results[1] = 86

\* C11: the 10-point leverage award is granted exactly when the reported
\* debtToEquity d satisfies d < 1 or 10 < d < 100 (d above 10 is read as the
\* percentage d/100 and compared with 1.0, any other d is compared as it is),
\* so it is withheld for 1 <= d <= 10 and for d >= 100, and it is granted when
\* debtToEquity is absent.  The award is what the returned score holds above
\* the other awards.
C11_LeverageAward ==
    LET a(cond) == IF cond THEN 10 ELSE 0
        fl == score_flags(analyst)
        rest == valuation_points(analyst)
                + a(get(analyst, "profitMargins") > analyst.benchmark["margin"])
                + a(get(analyst, "returnOnEquity") > analyst.benchmark["roe"])
                + a(get(analyst, "revenueGrowth") > 5)
                + a(get(analyst, "earningsGrowth") > 5)
                + a(get(analyst, "currentRatio") > 150)
                + Max(0, (fl[1] - fl[2]) * 3)
        absent == "debtToEquity" \notin DOMAIN analyst.info
        d == dict_get(analyst.info, "debtToEquity")[1]
        granted == absent \/ d < 100 \/ (1000 < d /\ d < 10000)
    IN  \A i \in DOMAIN results : results[i] - rest = a(granted)

\* a call scored a reported debtToEquity of 50 (percent) and granted the award
C11_Witness ==
    /\ results # <<>>
    /\ dict_get(analyst.info, "debtToEquity") = Some(5000)
    /\ frac_lt(de_ratio(analyst), 100)

\* a call scored a reported debtToEquity of exactly 1.0 and withheld the award
C11_WitnessBoundary ==
    /\ results # <<>>
    /\ dict_get(analyst.info, "debtToEquity") = Some(100)
    /\ ~frac_lt(de_ratio(analyst), 100)

----------------------------------------------------------------------------
(* The Investment Verdict of main over every score *)

InitVerdict ==
    /\ InitIdleMain
    /\ InitNoPortfolio
    /\ analyst = NoAnalyst
    /\ results = <<>>

\* main from `score = analyst.calculate_score()` to the verdict text, for a
\* score s returned by calculate_score
Verdict ==
    /\ \E s \in 0..max_score :
          /\ score' = Some(s)
          /\ rating' = Some(rating_of(s))
          /\ shown' = <<"Fundamental Score", rating_of(s), verdict_of(s)>>
    /\ results' = IF score = None THEN <<>>
                  ELSE <<<<score[1], rating[1]>>>>
    /\ UNCHANGED <<pc, analyze_button, ticker_input, analyst, auditor,
                   audit_results, fetched, err, alive, last_outcome,
                   portfolio_vars>>

NextVerdict == Verdict

SpecVerdict == InitVerdict /\ [][NextVerdict]_vars

\* the place of a rating in the order from STRONG SELL up to STRONG BUY
Rank(r) ==
    CHOOSE k \in 1..5 :
        <<"STRONG SELL", "SELL", "HOLD", "BUY", "STRONG BUY">>[k] = r

\* C13: the rating is a total, monotone function of the score with five
\* bands on 0..100 (80 and above STRONG BUY, 60..79 BUY, 40..59 HOLD, 20..39
\* SELL, below 20 STRONG SELL), and the verdict text shown with it agrees:
\* Strong Fundamentals exactly for BUY and STRONG BUY, Mixed Signals exactly
\* for HOLD, Weak Fundamentals exactly for SELL and STRONG SELL.
C13_RatingBands ==
    score # None =>
        LET s == score[1]
            r == rating[1]
            text == shown[3]
        IN  /\ r \in {"STRONG SELL", "SELL", "HOLD", "BUY", "STRONG BUY"}
            /\ r = "STRONG BUY" <=> s \in 80..100
            /\ r = "BUY" <=> s \in 60..79
            /\ r = "HOLD" <=> s \in 40..59
            /\ r = "SELL" <=> s \in 20..39
            /\ r = "STRONG SELL" <=> s \in 0..19
            /\ shown[2] = r
            /\ text \in {"Strong Fundamentals", "Mixed Signals",
                          "Weak Fundamentals"}
            /\ text = "Strong Fundamentals" <=> r \in {"BUY", "STRONG BUY"}
            /\ text = "Mixed Signals" <=> r = "HOLD"
            /\ text = "Weak Fundamentals" <=> r \in {"SELL", "STRONG SELL"}
            /\ \A prev \in {results[i] : i \in DOMAIN results} :
                  /\ prev[1] <= s => Rank(prev[2]) <= Rank(r)
                  /\ prev[1] >= s => Rank(prev[2]) >= Rank(r)

\* a score of 80 was rated STRONG BUY right after a score of 79 was rated BUY
C13_Witness ==
    /\ score = Some(80) /\ rating = Some("STRONG BUY")
    /\ shown[3] = "Strong Fundamentals"
    /\ results = <<<<79, "BUY">>>>

----------------------------------------------------------------------------
(* Repeated verify_all calls on one DataAuditor *)

MaxVerifyCalls == 3

\* analyst data for the four checks: the price (absent, current, regular
\* market, negative), the P/E with the EPS (absent, agreeing with the price,
\* discrepant, negative P/E) and the gross margin (absent, in range, out of
\* range)
AuditInfos ==
    { a @@ b @@ c :
        a \in {EmptyDict, "currentPrice" :> Some(2400),
               "regularMarketPrice" :> Some(2400),
               "currentPrice" :> Some(-100)},
        b \in {EmptyDict,
               ("trailingPE" :> Some(2400)) @@ ("trailingEps" :> Some(100)),
               ("trailingPE" :> Some(3000)) @@ ("trailingEps" :> Some(100)),
               ("trailingPE" :> Some(-2400)) @@ ("trailingEps" :> Some(100))},
        c \in Choices("grossMargins", {40, 150}) }

\* auditor = DataAuditor(analyst) on an analyst holding any data
InitAudit ==
    /\ InitIdleMain
    /\ InitNoPortfolio
    /\ results = <<>>
    /\ \E i \in AuditInfos :
          analyst = [NoAnalyst EXCEPT !.ticker = "AAPL", !.info = i]
    /\ auditor = DataAuditor(analyst)

\* audit_results = auditor.verify_all()
VerifyAll ==
    /\ Len(results) < MaxVerifyCalls
    /\ LET v == verify_all(auditor, analyst)
       IN  /\ auditor' = v[1]
           /\ audit_results' = Some(v[2])
           /\ results' = Append(results, v[2].total_checks)
    /\ UNCHANGED <<pc, analyze_button, ticker_input, analyst, score, rating,
                   shown, fetched, err, alive, last_outcome, portfolio_vars>>

\* the analyst the auditor refers to gets other data: self.info = stock.info
ReloadInfo ==
    /\ \E i \in AuditInfos \ {analyst.info} :
          analyst' = [analyst EXCEPT !.info = i]
    /\ UNCHANGED <<main_vars, results, portfolio_vars>>

NextAudit == VerifyAll \/ ReloadInfo

SpecAudit == InitAudit /\ [][NextAudit]_vars

\* the report returned by the k-th call, k >= 1
C16_Report ==
    LET k == Len(results)
    IN  k >= 1 =>
          LET r == audit_results[1]
          IN  /\ r.total_checks = 4 * k
              /\ 0 <= r.verified /\ r.verified <= r.total_checks
              /\ r.warnings = Len(r.warning_list)
              /\ r.verified + r.warnings <= r.total_checks
              /\ r.error_list = <<>> /\ r.errors = 0
              /\ r.success_rate[2] > 0
              /\ r.success_rate[1] * r.total_checks
                    = 100 * r.verified * r.success_rate[2]
              /\ 0 <= r.success_rate[1]
              /\ r.success_rate[1] <= 100 * r.success_rate[2]
              /\ \A i \in DOMAIN results : results[i] = 4 <=> i = 1
              /\ auditor.total_checks = r.total_checks
              /\ auditor.verified_items = r.verified
              /\ auditor.warnings = r.warning_list

\* a call adds to what the calls before it left
C16_Accumulates ==
    auditor' # auditor =>
        /\ auditor'.total_checks = auditor.total_checks + 4
        /\ auditor'.verified_items >= auditor.verified_items
        /\ Len(auditor'.warnings) >= Len(auditor.warnings)
        /\ SubSeq(auditor'.warnings, 1, Len(auditor.warnings))
              = auditor.warnings

\* C16: after k >= 1 calls of verify_all on one DataAuditor, whatever the
\* analyst's data, the report has total_checks = 4k, 0 <= verified <=
\* total_checks, verified + warnings <= total_checks, an empty error list,
\* and a success_rate equal to 100 * verified / total_checks, within 0..100;
\* counters and warnings accumulate over the calls, so only the first call on
\* a fresh auditor reports total_checks = 4.
C16_VerifyAllCounts == []C16_Report /\ [][C16_Accumulates]_vars

\* the second call on an auditor reported 8 checks and the three warnings
\* that the two calls raised together
C16_Witness ==
    /\ Len(results) = 2
    /\ audit_results[1].total_checks = 8
    /\ audit_results[1].warnings = 3

----------------------------------------------------------------------------
(* The portfolio return engine (spec.md 4.1; no source file holds it)       *)
(*                                                                         *)
(* A per-period return is a count of halves (1 is +50%, -1 is -50%), above *)
(* -100% as the returns of positive prices are.  Money is counted in units *)
(* small enough for every value of a series of MaxLen periods to be a      *)
(* whole number of them.                                                   *)

MaxLen == 3

ReturnHalves == {-1, 0, 1, 2}

RECURSIVE Pow2(_)
Pow2(n) == IF n = 0 THEN 1 ELSE 2 * Pow2(n - 1)

Capitals == {c * Pow2(MaxLen) : c \in {1, 3}}

ReturnSeries == UNION {[1..n -> ReturnHalves] : n \in 1..MaxLen}

\* cumulative_value with the running product taken over r, not over 1 + r
RECURSIVE cumulative_value_no_one(_, _)
cumulative_value_no_one(rs, cap) ==
    IF rs = <<>> THEN <<>>
    ELSE LET first == (cap * rs[1]) \div 2
         IN  <<first>> \o cumulative_value_no_one(Tail(rs), first)

\* cumulative_value(returns, capital): the running product of (1 + r),
\* scaled by capital
RECURSIVE cumulative_value(_, _)
cumulative_value(rs, cap) ==
    IF rs = <<>> THEN <<>>
    ELSE LET first == (cap * (2 + rs[1])) \div 2
         IN  <<first>> \o cumulative_value(Tail(rs), first)

\* the running peak of a value series
RECURSIVE running_peak(_, _)
running_peak(vs, t) ==
    IF t = 1 THEN vs[1] ELSE Max(vs[t], running_peak(vs, t - 1))

\* drawdown[t] = (value[t] - peak[t]) / peak[t], as the fraction <<n, d>>
drawdown_at(vs, t) ==
    <<vs[t] - running_peak(vs, t), running_peak(vs, t)>>

\* fraction f <= fraction g, both with a positive denominator
frac_le(f, g) == f[1] * g[2] <= g[1] * f[2]

\* max_drawdown with the drawdown measured from the value to the peak
max_drawdown_rise(vs) ==
    LET rise(t) == <<running_peak(vs, t) - vs[t], running_peak(vs, t)>>
        t == CHOOSE t \in DOMAIN vs :
                \A u \in DOMAIN vs : frac_le(rise(u), rise(t))
    IN  rise(t)

\* max_drawdown(value_series): the minimum drawdown over the series
max_drawdown(vs) ==
    LET t == CHOOSE t \in DOMAIN vs :
                \A u \in DOMAIN vs : frac_le(drawdown_at(vs, t), drawdown_at(vs, u))
    IN  drawdown_at(vs, t)

InitPortfolio ==
    /\ InitIdleMain
    /\ analyst = NoAnalyst
    /\ results = <<>>
    /\ returns \in ReturnSeries
    /\ capital \in Capitals
    /\ values = <<>>
    /\ drawdown = None

\* values = cumulative_value(returns, capital)
CumulativeValue ==
    /\ values = <<>>
    /\ values' = cumulative_value(returns, capital)
    /\ UNCHANGED <<returns, capital, drawdown, analyst, results, main_vars>>

\* drawdown = max_drawdown(values)
MaxDrawdown ==
    /\ values # <<>> /\ drawdown = None
    /\ drawdown' = Some(max_drawdown(values))
    /\ UNCHANGED <<returns, capital, values, analyst, results, main_vars>>

NextPortfolio == CumulativeValue \/ MaxDrawdown

SpecPortfolio == InitPortfolio /\ [][NextPortfolio]_vars

----------------------------------------------------------------------------
(* Claims about the portfolio return engine, checked under SpecPortfolio *)

\* C8: max_drawdown of a portfolio value series is never positive: no
\* drawdown[t] = (value[t] - peak[t]) / peak[t] is, and the result is the
\* minimum of them.
C8_DrawdownNotPositive ==
    drawdown # None =>
        /\ drawdown[1][2] > 0 /\ drawdown[1][1] <= 0
        /\ \A t \in DOMAIN values :
              /\ drawdown_at(values, t)[1] <= 0
              /\ frac_le(drawdown[1], drawdown_at(values, t))
        /\ \E t \in DOMAIN values :
              frac_le(drawdown_at(values, t), drawdown[1])

\* the series rose by half and then lost half: a drawdown of -50%
C8_Witness ==
    /\ drawdown # None
    /\ returns = <<1, -1>>
    /\ 2 * drawdown[1][1] = 0 - drawdown[1][2]

====
